---- MODULE Spec2Model ----
(***************************************************************************)
(* prompt_builder (src/src/main.rs): one invocation of `tokenize-dir` or   *)
(* `dir-prompt` over a directory, as a state machine, and the line filter  *)
(* both commands apply, as a pure function.                                 *)
(*                                                                         *)
(* Text is a sequence of one-character strings, so that every byte the     *)
(* program writes can be compared.  A stream (stdout, stderr, the output   *)
(* file) is the sequence of chunks written to it; a chunk records the      *)
(* macro that wrote it (`via`) and its bytes.                               *)
(***************************************************************************)
EXTENDS Integers, Sequences, FiniteSets, TLC

NL == "\n"
CR == "\r"

\* ---------------------------------------------------------------- bounds
\* most entries a scanned directory holds
MaxEntries == 2
\* longest text handed to the line filter on its own
MaxLen == 4

\* ------------------------------------------------------- string literals
NameATxt == <<"a", ".", "t", "x", "t">>
NameBLog == <<"b", ".", "l", "o", "g">>
NameACaret == <<"a", "^">>
NameSub == <<"s", "u", "b">>
NameGone == <<"g", "o", "n", "e">>
DirPath == <<"d">>
OutPath == <<"o", "u", "t">>
ScenarioText == <<"k", "e", "e", "p", NL, "D", "R", "O", "P", " ", "m", "e", NL, "k", "e", "e", "p", "2", NL>>
OldData == <<"o", "l", "d", NL>>
Placeholder == <<"[", "C", "o", "u", "l", "d", " ", "n", "o", "t", " ", "r", "e", "a", "d", " ", "c", "o", "n", "t", "e", "n", "t", "s", "]">>
SkippingPrefix == <<"S", "k", "i", "p", "p", "i", "n", "g", " ", "i", "g", "n", "o", "r", "e", "d", " ", "f", "i", "l", "e", ":", " ">>
InvalidPatternPrefix == <<"W", "a", "r", "n", "i", "n", "g", ":", " ", "I", "n", "v", "a", "l", "i", "d", " ", "i", "g", "n", "o", "r", "e", " ", "p", "a", "t", "t", "e", "r", "n", " ", "'">>
InvalidPatternSuffix == <<"'", ".", " ", "I", "g", "n", "o", "r", "i", "n", "g", ".">>
CouldNotReadPrefix == <<"W", "a", "r", "n", "i", "n", "g", ":", " ", "C", "o", "u", "l", "d", " ", "n", "o", "t", " ", "r", "e", "a", "d", " ", "f", "i", "l", "e", " ">>
NotADirectorySuffix == <<" ", "i", "s", " ", "n", "o", "t", " ", "a", " ", "d", "i", "r", "e", "c", "t", "o", "r", "y", ".">>
CreateFailedPrefix == <<"F", "a", "i", "l", "e", "d", " ", "t", "o", " ", "c", "r", "e", "a", "t", "e", " ", "o", "u", "t", "p", "u", "t", " ", "f", "i", "l", "e", " ", "'">>
CreateFailedInfix == <<"'", ":", " ">>
ErrorPrefix == <<"E", "r", "r", "o", "r", ":", " ">>
TokensGap == <<" ", " ", " ">>
TokensSuffix == <<" ", "t", "o", "k", "e", "n", "s">>
\* the text of an error the operating system or the tokenizer library reports
OsError == <<"o", "s", " ", "e", "r", "r", "o", "r">>
TokenizerError == <<"t", "o", "k", "e", "n", "i", "z", "e", "r", " ", "e", "r", "r", "o", "r">>
PatStarLog == <<"*", ".", "l", "o", "g">>
PatOpenBracket == <<"[">>
PatATxt == <<"a", ".", "t", "x", "t">>
FallbackPattern == <<"a", "^">>
SubDROP == <<"D", "R", "O", "P">>
SubC == <<"C">>
DigitChars == <<"0", "1", "2", "3", "4", "5", "6", "7", "8", "9">>

\* ------------------------------------------------------ sequence helpers
Last(s) == s[Len(s)]
Front(s) == SubSeq(s, 1, Len(s) - 1)
Drop(s, k) == SubSeq(s, k + 1, Len(s))

RECURSIVE Flat(_)
\* the bytes of a sequence of texts, one after the other
Flat(ts) == IF ts = <<>> THEN <<>> ELSE Head(ts) \o Flat(Tail(ts))

RECURSIVE Bytes(_)
\* the bytes of the chunks of a stream
Bytes(stream) == IF stream = <<>> THEN <<>> ELSE <<Head(stream).bytes>> \o Bytes(Tail(stream))

\* str::contains: `sub` occurs in `s` as a contiguous run (the empty text always does)
Contains(s, sub) ==
    \E i \in 0..(Len(s) - Len(sub)) : SubSeq(s, i + 1, i + Len(sub)) = sub

EndsWith(s, c) == Len(s) > 0 /\ Last(s) = c

\* ------------------------------------------------- glob::Pattern (crate)
\* Pattern::new over patterns made of literal characters, `?`, `*` and `[`.
\* No pattern in use holds a `]`, so the search for the end of a character
\* class always fails and `[` is ERROR_INVALID_RANGE.
StarRunEnd(chars, i) ==
    CHOOSE j \in (i + 1)..(Len(chars) + 1) :
        /\ \A k \in i..(j - 1) : chars[k] = "*"
        /\ (j = Len(chars) + 1 \/ chars[j] # "*")

PatternErr == [ok |-> FALSE, tokens |-> <<>>]

PatternPush(tok, rest) ==
    IF rest.ok THEN [ok |-> TRUE, tokens |-> <<tok>> \o rest.tokens] ELSE PatternErr

RECURSIVE PatternParse(_, _)
PatternParse(chars, i) ==
    IF i > Len(chars) THEN [ok |-> TRUE, tokens |-> <<>>]
    ELSE IF chars[i] = "?" THEN PatternPush([t |-> "AnyChar", c |-> ""], PatternParse(chars, i + 1))
    ELSE IF chars[i] = "*" THEN
        LET j == StarRunEnd(chars, i)
            count == j - i
        IN  IF count > 2 THEN PatternErr
            ELSE IF count = 2 THEN
                IF i = 1 \/ chars[i - 1] = "/"
                THEN IF j <= Len(chars) /\ chars[j] = "/"
                     THEN PatternPush([t |-> "AnyRecursiveSequence", c |-> ""], PatternParse(chars, j + 1))
                     ELSE IF j = Len(chars) + 1
                     THEN PatternPush([t |-> "AnyRecursiveSequence", c |-> ""], PatternParse(chars, j))
                     ELSE PatternErr
                ELSE PatternErr
            ELSE PatternPush([t |-> "AnySequence", c |-> ""], PatternParse(chars, j))
    ELSE IF chars[i] = "[" THEN PatternErr
    ELSE PatternPush([t |-> "Char", c |-> chars[i]], PatternParse(chars, i + 1))

\* Pattern::new(p): Ok(tokens) or Err
PatternNew(p) == PatternParse(p, 1)

RECURSIVE PatternMatches(_, _)
\* Pattern::matches(name) under MatchOptions::new(): case sensitive, a
\* wildcard may match any character, a leading dot included
PatternMatches(tokens, name) ==
    IF tokens = <<>> THEN name = <<>>
    ELSE IF Head(tokens).t \in {"AnySequence", "AnyRecursiveSequence"}
    THEN \E k \in 0..Len(name) : PatternMatches(Tail(tokens), Drop(name, k))
    ELSE /\ name # <<>>
         /\ (Head(tokens).t = "AnyChar" \/ Head(tokens).c = Head(name))
         /\ PatternMatches(Tail(tokens), Tail(name))

\* main.rs 100-104: the compiled pattern, or the fallback Pattern::new("a^")
\* when the user's pattern does not compile
CompileIgnore(p) ==
    IF PatternNew(p).ok THEN PatternNew(p).tokens ELSE PatternNew(FallbackPattern).tokens

RECURSIVE CompileAll(_)
CompileAll(ps) == IF ps = <<>> THEN <<>> ELSE <<CompileIgnore(Head(ps))>> \o CompileAll(Tail(ps))

RECURSIVE InvalidWarnings(_)
\* main.rs 101: one eprintln! per pattern that does not compile, in order
InvalidWarnings(ps) ==
    IF ps = <<>> THEN <<>>
    ELSE (IF PatternNew(Head(ps)).ok THEN <<>>
          ELSE <<[via |-> "eprintln",
                  bytes |-> InvalidPatternPrefix \o Head(ps) \o InvalidPatternSuffix \o <<NL>>]>>)
         \o InvalidWarnings(Tail(ps))

\* main.rs 134 / 216: ignore_globs.iter().any(|p| p.matches(name))
AnyGlobMatches(globs, name) == \E i \in 1..Len(globs) : PatternMatches(globs[i], name)

\* ------------------------------------------------------------ str::lines
IndexOf(t, c) ==
    IF \E i \in 1..Len(t) : t[i] = c
    THEN CHOOSE i \in 1..Len(t) : t[i] = c /\ \A j \in 1..(i - 1) : t[j] # c
    ELSE 0

\* a line with its "\n", or its "\r\n", removed; an unterminated last piece is kept
\* as it is, a final "\r" included (the standard library's current str::lines)
StripLineEnding(piece) ==
    IF EndsWith(piece, NL)
    THEN IF EndsWith(Front(piece), CR) THEN Front(Front(piece)) ELSE Front(piece)
    ELSE piece

RECURSIVE Lines(_)
\* str::lines(): the pieces of split_inclusive('\n'), each without its line ending
Lines(t) ==
    IF t = <<>> THEN <<>>
    ELSE IF IndexOf(t, NL) = 0 THEN <<t>>
    ELSE <<StripLineEnding(SubSeq(t, 1, IndexOf(t, NL)))>> \o Lines(Drop(t, IndexOf(t, NL)))

RECURSIVE Join(_, _)
\* [&str]::join(sep)
Join(ls, sep) ==
    IF ls = <<>> THEN <<>>
    ELSE IF Len(ls) = 1 THEN Head(ls)
    ELSE Head(ls) \o sep \o Join(Tail(ls), sep)

\* main.rs 152 / 234: the line holds none of the substrings
KeepsLine(line, skip) == ~ \E i \in 1..Len(skip) : Contains(line, skip[i])

\* the same computation with the lines concatenated instead of joined by "\n"
LineFilterConcat(contents, skip) ==
    IF skip = <<>> THEN contents
    ELSE Join(SelectSeq(Lines(contents), LAMBDA l : KeepsLine(l, skip)), <<>>)

\* the same computation with the `!` of the filter closure lost
LineFilterKeepMatching(contents, skip) ==
    IF skip = <<>> THEN contents
    ELSE Join(SelectSeq(Lines(contents), LAMBDA l : ~KeepsLine(l, skip)), <<NL>>)

\* main.rs 146-156 (and, word for word, 228-238): processed_contents
LineFilter(contents, skip) ==
    IF skip = <<>> THEN contents
    ELSE Join(SelectSeq(Lines(contents), LAMBDA l : KeepsLine(l, skip)), <<NL>>)

\* ------------------------------------------------------------- rendering
RECURSIVE WordRuns(_, _)
\* Stand-in for the tokenizer library's encode_with_special_tokens: a total,
\* deterministic text -> tokens map (one token per run of non-blank
\* characters).  Only the number of tokens is ever observed.
WordRuns(t, inWord) ==
    IF t = <<>> THEN <<>>
    ELSE IF Head(t) \in {" ", NL, CR} THEN WordRuns(Tail(t), FALSE)
    ELSE (IF inWord THEN <<>> ELSE <<"tok">>) \o WordRuns(Tail(t), TRUE)

Encode(t) == WordRuns(t, FALSE)

RECURSIVE ToDecimal(_)
\* Display of a usize
ToDecimal(n) ==
    IF n < Len(DigitChars) THEN <<DigitChars[n + 1]>>
    ELSE ToDecimal(n \div Len(DigitChars)) \o <<DigitChars[(n % Len(DigitChars)) + 1]>>

\* main.rs 159-163: writeln!(writer, "{}   {} tokens", name, tokens.len())
TkLine(name, processed) ==
    name \o TokensGap \o ToDecimal(Len(Encode(processed))) \o TokensSuffix \o <<NL>>

\* the block as `write!` would produce it: the format string alone
BpBlockNoLineEnd(name, processed) ==
    name \o <<NL, NL>> \o processed \o <<NL>>

\* main.rs 241: writeln!(writer, "{}\n\n{}\n", name, processed): the format
\* string and then writeln!'s own line terminator
BpBlock(name, processed) ==
    name \o <<NL, NL>> \o processed \o <<NL>> \o <<NL>>

\* ------------------------------------------------------------ the inputs
Modes == {"TokenizeDir", "DirPrompt"}

\* what a directory listing can yield: a readable file, a file whose read
\* fails, a sub-directory, and an entry whose DirEntry is an io::Error
EntryPool ==
    { [name |-> NameATxt, kind |-> "file", readable |-> TRUE, contents |-> ScenarioText],
      [name |-> NameATxt, kind |-> "file", readable |-> FALSE, contents |-> <<>>],
      [name |-> NameBLog, kind |-> "file", readable |-> TRUE, contents |-> ScenarioText],
      [name |-> NameACaret, kind |-> "file", readable |-> TRUE, contents |-> ScenarioText],
      [name |-> NameSub, kind |-> "dir", readable |-> FALSE, contents |-> <<>>],
      [name |-> NameGone, kind |-> "err", readable |-> FALSE, contents |-> <<>>] }

\* listings of at most MaxEntries entries; a directory holds a name once
Listings ==
    UNION { { s \in [1..n -> EntryPool] :
                \A i, j \in 1..n : i # j => s[i].name # s[j].name } : n \in 0..MaxEntries }

IgnoreChoices ==
    { <<>>, <<PatStarLog>>, <<PatOpenBracket>>, <<PatStarLog, PatOpenBracket>>, <<PatATxt>> }

SkipChoices == { <<>>, <<SubDROP>>, <<SubC>> }

NoOutput == [tag |-> "None", path |-> <<>>]
SomeOutput == [tag |-> "Some", path |-> OutPath]

NoFile == [exists |-> FALSE, data |-> <<>>]
OldFile == [exists |-> TRUE, data |-> <<[via |-> "earlier", bytes |-> OldData]>>]

\* the line filter on its own
LFChars == {"a", "D", NL, CR}
LFTexts == UNION { [1..n -> LFChars] : n \in 0..MaxLen }
LFSkipChoices == { <<>>, <<<<"D">>>>, <<<<"a", "D">>>>, <<<<>>>>, <<<<"D">>, <<CR>>>> }

\* -------------------------------------------------------------- the state
VARIABLES
    mode,             \* the subcommand
    is_dir,           \* Path::new(dir_path).is_dir()
    entries,          \* what fs::read_dir(path) yields, in its order
    output,           \* Option<String>
    ignore_patterns,  \* Vec<String>
    skip_substrings,  \* Vec<String>
    pc,               \* the position of the run
    ignore_globs,     \* Vec<Pattern>
    idx,              \* entries of the listing consumed so far
    stdout,           \* chunks written to standard output
    stderr,           \* chunks written to standard error
    file,             \* the file at the output path
    processed,        \* (name, processed_contents) of every file loaded so far
    result,           \* what the command function returned
    exit_code,        \* the exit status; -1 while the process runs
    fault,            \* the call the environment failed, if any
    lfPc, lfText, lfSkip, lfOnce, lfTwice  \* the line filter on its own

inputs == <<mode, is_dir, entries, output, ignore_patterns, skip_substrings>>
lfvars == <<lfPc, lfText, lfSkip, lfOnce, lfTwice>>
vars == <<mode, is_dir, entries, output, ignore_patterns, skip_substrings, pc,
          ignore_globs, idx, stdout, stderr, file, processed, result, exit_code,
          fault, lfPc, lfText, lfSkip, lfOnce, lfTwice>>

Running == [tag |-> "Running", msg |-> <<>>]
Ok == [tag |-> "Ok", msg |-> <<>>]
Err(msg) == [tag |-> "Err", msg |-> msg]

Init ==
    /\ mode \in Modes
    /\ is_dir \in BOOLEAN
    /\ entries \in (IF is_dir THEN Listings ELSE {<<>>})
    /\ output \in {NoOutput, SomeOutput}
    /\ file \in (IF output.tag = "Some" THEN {NoFile, OldFile} ELSE {NoFile})
    /\ ignore_patterns \in IgnoreChoices
    /\ skip_substrings \in SkipChoices
    /\ pc = "validate"
    /\ ignore_globs = <<>>
    /\ idx = 0
    /\ stdout = <<>>
    /\ stderr = <<>>
    /\ processed = <<>>
    /\ result = Running
    /\ exit_code = -1
    /\ fault = "none"
    /\ lfPc = "idle" /\ lfText = <<>> /\ lfSkip = <<>> /\ lfOnce = <<>> /\ lfTwice = <<>>

\* ------------------------------------------------- pieces of the loop body
\* main.rs 140-143 / 222-225 with "" in place of the placeholder
ReadToStringOrEmpty(e) == IF e.readable THEN e.contents ELSE <<>>

\* main.rs 140-143 / 222-225: fs::read_to_string(..).unwrap_or_else(placeholder)
ReadToString(e) == IF e.readable THEN e.contents ELSE Placeholder

\* main.rs 141 / 223: the warning of a failed read, naming file_path.display()
ReadWarning(e) ==
    IF e.readable THEN <<>>
    ELSE <<[via |-> "eprintln",
            bytes |-> CouldNotReadPrefix \o DirPath \o <<"/">> \o e.name \o <<NL>>]>>

\* main.rs 135 / 217: println!("Skipping ignored file: {}", name)
SkipLine(name) == [via |-> "println", bytes |-> SkippingPrefix \o name \o <<NL>>]

\* the writer of main.rs 108-119 / 193-204 receives one record
SinkAppend(bytes) ==
    IF output.tag = "Some"
    THEN /\ file' = [file EXCEPT !.data = Append(@, [via |-> "writer", bytes |-> bytes])]
         /\ UNCHANGED stdout
    ELSE /\ stdout' = Append(stdout, [via |-> "writer", bytes |-> bytes])
         /\ UNCHANGED file

\* ------------------------------------------------------ tokenize_directory
\* main.rs 92-95
TkValidate ==
    /\ pc = "validate" /\ mode = "TokenizeDir"
    /\ IF is_dir
       THEN pc' = "compile" /\ UNCHANGED result
       ELSE pc' = "returned" /\ result' = Err(DirPath \o NotADirectorySuffix)
    /\ UNCHANGED <<inputs, ignore_globs, idx, stdout, stderr, file, processed, exit_code, fault, lfvars>>

\* main.rs 98-105
TkCompile ==
    /\ pc = "compile" /\ mode = "TokenizeDir"
    /\ ignore_globs' = CompileAll(ignore_patterns)
    /\ stderr' = stderr \o InvalidWarnings(ignore_patterns)
    /\ pc' = "open"
    /\ UNCHANGED <<inputs, idx, stdout, file, processed, result, exit_code, fault, lfvars>>

\* main.rs 108-119: File::create creates or truncates, or fails
TkOpen ==
    /\ pc = "open" /\ mode = "TokenizeDir"
    /\ IF output.tag = "Some"
       THEN \E created \in BOOLEAN :
              IF created
              THEN /\ file' = [exists |-> TRUE, data |-> <<>>]
                   /\ pc' = "init"
                   /\ UNCHANGED <<result, fault>>
              ELSE /\ fault' = "create"
                   /\ result' = Err(CreateFailedPrefix \o output.path \o CreateFailedInfix \o OsError)
                   /\ pc' = "returned"
                   /\ UNCHANGED file
       ELSE pc' = "init" /\ UNCHANGED <<file, result, fault>>
    /\ UNCHANGED <<inputs, ignore_globs, idx, stdout, stderr, processed, exit_code, lfvars>>

\* main.rs 122: p50k_base()?
TkInit ==
    /\ pc = "init" /\ mode = "TokenizeDir"
    /\ \E loaded \in BOOLEAN :
         IF loaded
         THEN pc' = "read_dir" /\ UNCHANGED <<result, fault>>
         ELSE fault' = "init" /\ result' = Err(TokenizerError) /\ pc' = "returned"
    /\ UNCHANGED <<inputs, ignore_globs, idx, stdout, stderr, file, processed, exit_code, lfvars>>

\* main.rs 125: fs::read_dir(path)?
TkReadDir ==
    /\ pc = "read_dir" /\ mode = "TokenizeDir"
    /\ \E opened \in BOOLEAN :
         IF opened
         THEN pc' = "loop" /\ UNCHANGED <<result, fault>>
         ELSE fault' = "read_dir" /\ result' = Err(OsError) /\ pc' = "returned"
    /\ UNCHANGED <<inputs, ignore_globs, idx, stdout, stderr, file, processed, exit_code, lfvars>>

\* main.rs 134 with `all` in place of `any`
TkIgnoredAll(name) == \A i \in 1..Len(ignore_globs) : PatternMatches(ignore_globs[i], name)

\* main.rs 134
TkIgnored(name) == AnyGlobMatches(ignore_globs, name)

\* main.rs 163: writeln!(writer, ..)?
TkWrite(bytes) ==
    \E written \in BOOLEAN :
        IF written
        THEN /\ SinkAppend(bytes)
             /\ idx' = idx + 1
             /\ UNCHANGED <<pc, result, fault>>
        ELSE /\ fault' = "write"
             /\ result' = Err(OsError)
             /\ pc' = "returned"
             /\ UNCHANGED <<idx, stdout, file>>

\* main.rs 125-165: one turn of the loop
TkEntry ==
    /\ pc = "loop" /\ mode = "TokenizeDir" /\ idx < Len(entries)
    /\ LET e == entries[idx + 1]
           processed_contents == LineFilter(ReadToString(e), skip_substrings)
       IN  IF e.kind = "err"
           THEN /\ fault' = "entry"
                /\ result' = Err(OsError)
                /\ pc' = "returned"
                /\ UNCHANGED <<idx, stdout, stderr, file, processed>>
           ELSE IF e.kind # "file"
           THEN /\ idx' = idx + 1
                /\ UNCHANGED <<pc, stdout, stderr, file, processed, result, fault>>
           ELSE IF TkIgnored(e.name)
           THEN /\ stdout' = Append(stdout, SkipLine(e.name))
                /\ idx' = idx + 1
                /\ UNCHANGED <<pc, stderr, file, processed, result, fault>>
           ELSE /\ stderr' = stderr \o ReadWarning(e)
                /\ processed' = Append(processed, [name |-> e.name, text |-> processed_contents])
                /\ TkWrite(TkLine(e.name, processed_contents))
    /\ UNCHANGED <<inputs, ignore_globs, exit_code, lfvars>>

\* main.rs 167: Ok(()) once the listing is exhausted
TkReturn ==
    /\ pc = "loop" /\ mode = "TokenizeDir" /\ idx = Len(entries)
    /\ result' = Ok
    /\ pc' = "returned"
    /\ UNCHANGED <<inputs, ignore_globs, idx, stdout, stderr, file, processed, exit_code, fault, lfvars>>

\* main.rs 66-69
MainTokenizeDir ==
    /\ pc = "returned" /\ mode = "TokenizeDir"
    /\ IF result.tag = "Err"
       THEN /\ stderr' = Append(stderr, [via |-> "eprintln", bytes |-> ErrorPrefix \o result.msg \o <<NL>>])
            /\ exit_code' = 1
       ELSE /\ exit_code' = 0
            /\ UNCHANGED stderr
    /\ pc' = "exited"
    /\ UNCHANGED <<inputs, ignore_globs, idx, stdout, file, processed, result, fault, lfvars>>

\* -------------------------------------------------- build_prompt_directory
\* the check of main.rs 178-180 made after the sink is opened
BpValidateAfterOpen ==
    /\ pc = "validate" /\ mode = "DirPrompt"
    /\ IF is_dir
       THEN pc' = "compile" /\ UNCHANGED <<result, file>>
       ELSE /\ pc' = "returned"
            /\ result' = Err(DirPath \o NotADirectorySuffix)
            /\ file' = IF output.tag = "Some" THEN [exists |-> TRUE, data |-> <<>>] ELSE file
    /\ UNCHANGED <<inputs, ignore_globs, idx, stdout, stderr, processed, exit_code, fault, lfvars>>

\* main.rs 177-180
BpValidate ==
    /\ pc = "validate" /\ mode = "DirPrompt"
    /\ IF is_dir
       THEN pc' = "compile" /\ UNCHANGED result
       ELSE pc' = "returned" /\ result' = Err(DirPath \o NotADirectorySuffix)
    /\ UNCHANGED <<inputs, ignore_globs, idx, stdout, stderr, file, processed, exit_code, fault, lfvars>>

\* main.rs 183-190
BpCompile ==
    /\ pc = "compile" /\ mode = "DirPrompt"
    /\ ignore_globs' = CompileAll(ignore_patterns)
    /\ stderr' = stderr \o InvalidWarnings(ignore_patterns)
    /\ pc' = "open"
    /\ UNCHANGED <<inputs, idx, stdout, file, processed, result, exit_code, fault, lfvars>>

\* main.rs 193-204
BpOpen ==
    /\ pc = "open" /\ mode = "DirPrompt"
    /\ IF output.tag = "Some"
       THEN \E created \in BOOLEAN :
              IF created
              THEN /\ file' = [exists |-> TRUE, data |-> <<>>]
                   /\ pc' = "read_dir"
                   /\ UNCHANGED <<result, fault>>
              ELSE /\ fault' = "create"
                   /\ result' = Err(CreateFailedPrefix \o output.path \o CreateFailedInfix \o OsError)
                   /\ pc' = "returned"
                   /\ UNCHANGED file
       ELSE pc' = "read_dir" /\ UNCHANGED <<file, result, fault>>
    /\ UNCHANGED <<inputs, ignore_globs, idx, stdout, stderr, processed, exit_code, lfvars>>

\* main.rs 207: fs::read_dir(path)?
BpReadDir ==
    /\ pc = "read_dir" /\ mode = "DirPrompt"
    /\ \E opened \in BOOLEAN :
         IF opened
         THEN pc' = "loop" /\ UNCHANGED <<result, fault>>
         ELSE fault' = "read_dir" /\ result' = Err(OsError) /\ pc' = "returned"
    /\ UNCHANGED <<inputs, ignore_globs, idx, stdout, stderr, file, processed, exit_code, lfvars>>

\* main.rs 216
BpIgnored(name) == AnyGlobMatches(ignore_globs, name)

\* main.rs 241 with the error of the write dropped (`let _ = writeln!(..)`)
BpWriteIgnoringError(bytes) ==
    \E written \in BOOLEAN :
        IF written
        THEN /\ SinkAppend(bytes)
             /\ idx' = idx + 1
             /\ UNCHANGED <<pc, result, fault>>
        ELSE /\ fault' = "write"
             /\ idx' = idx + 1
             /\ UNCHANGED <<pc, result, stdout, file>>

\* main.rs 241: writeln!(writer, ..)?
BpWrite(bytes) ==
    \E written \in BOOLEAN :
        IF written
        THEN /\ SinkAppend(bytes)
             /\ idx' = idx + 1
             /\ UNCHANGED <<pc, result, fault>>
        ELSE /\ fault' = "write"
             /\ result' = Err(OsError)
             /\ pc' = "returned"
             /\ UNCHANGED <<idx, stdout, file>>

\* main.rs 207-243: one turn of the loop
BpEntry ==
    /\ pc = "loop" /\ mode = "DirPrompt" /\ idx < Len(entries)
    /\ LET e == entries[idx + 1]
           processed_contents == LineFilter(ReadToString(e), skip_substrings)
       IN  IF e.kind = "err"
           THEN /\ fault' = "entry"
                /\ result' = Err(OsError)
                /\ pc' = "returned"
                /\ UNCHANGED <<idx, stdout, stderr, file, processed>>
           ELSE IF e.kind # "file"
           THEN /\ idx' = idx + 1
                /\ UNCHANGED <<pc, stdout, stderr, file, processed, result, fault>>
           ELSE IF BpIgnored(e.name)
           THEN /\ stdout' = Append(stdout, SkipLine(e.name))
                /\ idx' = idx + 1
                /\ UNCHANGED <<pc, stderr, file, processed, result, fault>>
           ELSE /\ stderr' = stderr \o ReadWarning(e)
                /\ processed' = Append(processed, [name |-> e.name, text |-> processed_contents])
                /\ BpWrite(BpBlock(e.name, processed_contents))
    /\ UNCHANGED <<inputs, ignore_globs, exit_code, lfvars>>

\* main.rs 245: Ok(()) once the listing is exhausted
BpReturn ==
    /\ pc = "loop" /\ mode = "DirPrompt" /\ idx = Len(entries)
    /\ result' = Ok
    /\ pc' = "returned"
    /\ UNCHANGED <<inputs, ignore_globs, idx, stdout, stderr, file, processed, exit_code, fault, lfvars>>

\* main.rs 77-80
MainDirPrompt ==
    /\ pc = "returned" /\ mode = "DirPrompt"
    /\ IF result.tag = "Err"
       THEN /\ stderr' = Append(stderr, [via |-> "eprintln", bytes |-> ErrorPrefix \o result.msg \o <<NL>>])
            /\ exit_code' = 1
       ELSE /\ exit_code' = 0
            /\ UNCHANGED stderr
    /\ pc' = "exited"
    /\ UNCHANGED <<inputs, ignore_globs, idx, stdout, file, processed, result, fault, lfvars>>

Next ==
    \/ TkValidate \/ TkCompile \/ TkOpen \/ TkInit \/ TkReadDir \/ TkEntry \/ TkReturn
    \/ MainTokenizeDir
    \/ BpValidate \/ BpCompile \/ BpOpen \/ BpReadDir \/ BpEntry \/ BpReturn
    \/ MainDirPrompt

Spec == Init /\ [][Next]_vars

\* ------------------------------------------- the line filter, on its own
InitLF ==
    /\ lfPc = "start"
    /\ lfText \in LFTexts
    /\ lfSkip \in LFSkipChoices
    /\ lfOnce = <<>>
    /\ lfTwice = <<>>
    /\ mode = "DirPrompt" /\ is_dir = FALSE /\ entries = <<>> /\ output = NoOutput
    /\ file = NoFile /\ ignore_patterns = <<>> /\ skip_substrings = <<>>
    /\ pc = "idle" /\ ignore_globs = <<>> /\ idx = 0 /\ stdout = <<>> /\ stderr = <<>>
    /\ processed = <<>> /\ result = Running /\ exit_code = -1 /\ fault = "none"

\* processed_contents of a text
LFApply ==
    /\ lfPc = "start"
    /\ lfOnce' = LineFilter(lfText, lfSkip)
    /\ lfPc' = "once"
    /\ UNCHANGED <<inputs, pc, ignore_globs, idx, stdout, stderr, file, processed,
                   result, exit_code, fault, lfText, lfSkip, lfTwice>>

\* processed_contents of that result
LFApplyAgain ==
    /\ lfPc = "once"
    /\ lfTwice' = LineFilter(lfOnce, lfSkip)
    /\ lfPc' = "twice"
    /\ UNCHANGED <<inputs, pc, ignore_globs, idx, stdout, stderr, file, processed,
                   result, exit_code, fault, lfText, lfSkip, lfOnce>>

NextLF == LFApply \/ LFApplyAgain

SpecLF == InitLF /\ [][NextLF]_vars

\* ================================================================ claims
\* what the formulas below read off a state
SinkStream == IF output.tag = "Some" THEN file.data ELSE stdout
WriterChunks(stream) == SelectSeq(stream, LAMBDA c : c.via = "writer")
Records == WriterChunks(SinkStream)
Exclusion(name) ==
    \E i \in 1..Len(ignore_patterns) :
        PatternMatches(CompileIgnore(ignore_patterns[i]), name)
Survivors(es) == SelectSeq(es, LAMBDA e : e.kind = "file" /\ ~Exclusion(e.name))
Excluded(es) == SelectSeq(es, LAMBDA e : e.kind = "file" /\ Exclusion(e.name))
FilteredTextOf(e) == LineFilter(ReadToString(e), skip_substrings)
RecordOf(e) ==
    IF mode = "TokenizeDir" THEN TkLine(e.name, FilteredTextOf(e))
    ELSE BpBlock(e.name, FilteredTextOf(e))

RECURSIVE RecordsOf(_)
RecordsOf(es) == IF es = <<>> THEN <<>> ELSE <<RecordOf(Head(es))>> \o RecordsOf(Tail(es))

RECURSIVE ProcessedOf(_)
ProcessedOf(es) ==
    IF es = <<>> THEN <<>>
    ELSE <<[name |-> Head(es).name, text |-> FilteredTextOf(Head(es))]>> \o ProcessedOf(Tail(es))

RECURSIVE SkipLinesOf(_)
SkipLinesOf(es) == IF es = <<>> THEN <<>> ELSE <<SkipLine(Head(es).name)>> \o SkipLinesOf(Tail(es))

RECURSIVE ReadWarningsOf(_)
ReadWarningsOf(es) == IF es = <<>> THEN <<>> ELSE ReadWarning(Head(es)) \o ReadWarningsOf(Tail(es))

RECURSIVE SplitAtNewlines(_)
\* the pieces between the "\n" of a text
SplitAtNewlines(t) ==
    IF IndexOf(t, NL) = 0 THEN <<t>>
    ELSE <<SubSeq(t, 1, IndexOf(t, NL) - 1)>> \o SplitAtNewlines(Drop(t, IndexOf(t, NL)))

ScenarioB ==
    /\ mode = "DirPrompt"
    /\ entries = <<[name |-> NameATxt, kind |-> "file", readable |-> TRUE, contents |-> ScenarioText]>>
    /\ ignore_patterns = <<>>
    /\ skip_substrings = <<SubDROP>>
    /\ output = SomeOutput
ScenarioBClaimed == <<"a", ".", "t", "x", "t", NL, NL, "k", "e", "e", "p", NL, "k", "e", "e", "p", "2", NL>>
ScenarioBWritten == <<"a", ".", "t", "x", "t", NL, NL, "k", "e", "e", "p", NL, "k", "e", "e", "p", "2", NL, NL>>
Finished == pc = "exited" /\ result.tag = "Ok"

\* ---------------------------------------------------------------------- C1
\* C1 as stated: in Prompt Renderer mode the bytes written for a surviving
\* file are its base name, "\n\n", the filtered text and ONE trailing "\n";
\* for a.txt = "keep\nDROP me\nkeep2\n" and skip substring DROP the output is
\* exactly "a.txt\n\nkeep\nkeep2\n".
C1_BlockEndsWithOneNewline ==
    mode = "DirPrompt" =>
        /\ \A i \in 1..Len(Records) :
              Records[i].bytes =
                  processed[i].name \o <<NL, NL>> \o processed[i].text \o <<NL>>
        /\ (ScenarioB /\ Finished => Flat(Bytes(file.data)) = ScenarioBClaimed)

\* C1 amended: in Prompt Renderer mode the bytes written for a surviving file
\* are its base name, "\n\n", the filtered text and TWO trailing "\n" (the
\* format string's and writeln!'s); for the a.txt scenario the output is
\* "a.txt\n\nkeep\nkeep2\n\n"; the writer puts nothing else between blocks,
\* and an output file holds the blocks and nothing else.
C1_BlockEndsWithTwoNewlines ==
    mode = "DirPrompt" =>
        /\ \A i \in 1..Len(Records) :
              Records[i].bytes =
                  processed[i].name \o <<NL, NL>> \o processed[i].text \o <<NL, NL>>
        /\ (ScenarioB /\ Finished => Flat(Bytes(file.data)) = ScenarioBWritten)
        /\ (output.tag = "Some" /\ pc \in {"read_dir", "loop"} => file.data = Records)
        /\ (Finished => Bytes(Records) = RecordsOf(Survivors(entries)))

\* two blocks, one after the other, in a finished Prompt Renderer run that dropped lines
C1_Witness ==
    /\ Finished /\ mode = "DirPrompt" /\ output.tag = "Some"
    /\ skip_substrings = <<SubDROP>>
    /\ Len(file.data) = 2
    /\ Flat(Bytes(file.data)) = file.data[1].bytes \o file.data[2].bytes
    /\ processed[1].text # entries[1].contents

\* ---------------------------------------------------------------------- C2
\* C2: no diagnostic (the "Skipping ignored file" line, the invalid-pattern
\* warning, the unreadable-file warning) is ever written to the stream that
\* receives the rendered records, whether that is a file or standard output.
C2_NoDiagnosticInSink ==
    \A i \in 1..Len(SinkStream) : SinkStream[i].via \notin {"println", "eprintln"}

\* ---------------------------------------------------------------------- C3
\* C3: the matcher substituted for a pattern that does not compile matches
\* no file name; here, the name of no entry of the scanned directory.
C3_InvalidPatternMatchesNothing ==
    pc \in {"open", "init", "read_dir", "loop", "returned", "exited"} /\ is_dir =>
        \A i \in 1..Len(ignore_patterns) :
            ~PatternNew(ignore_patterns[i]).ok =>
                \A k \in 1..Len(entries) : ~PatternMatches(ignore_globs[i], entries[k].name)

\* ---------------------------------------------------------------------- C4
\* the result of the filter reads back as the lines it was joined from: it
\* does not end in "\n" and no "\r" stands at the end of a line
ReadsBackUnchanged(t) ==
    /\ ~EndsWith(t, NL)
    /\ ~EndsWith(t, CR)
    /\ ~Contains(t, <<CR, NL>>)

\* C4 as stated: filtering an already filtered text changes nothing, for
\* every text and every substring set.
C4_Idempotent == lfPc = "twice" => lfTwice = lfOnce

\* C4 amended: filtering an already filtered text changes nothing when the
\* substring set is empty, or when the filtered text neither ends in "\n" nor
\* has a "\r" at the end of a line.
C4_IdempotentWhenReadBack ==
    lfPc = "twice" /\ (lfSkip = <<>> \/ ReadsBackUnchanged(lfOnce)) => lfTwice = lfOnce

\* a text with a "\r\n" ending of which a line was dropped and a line kept, filtered twice
C4_Witness ==
    /\ lfPc = "twice"
    /\ lfSkip # <<>>
    /\ Contains(lfText, <<CR, NL>>)
    /\ ReadsBackUnchanged(lfOnce)
    /\ lfOnce # <<>>
    /\ Len(Lines(lfOnce)) < Len(Lines(lfText))
    /\ lfTwice = lfOnce

\* ---------------------------------------------------------------------- C5
\* C5 as stated: the lines of LineFilter(T, S) are exactly the lines of T
\* that contain no element of S, in order; with S empty the result is T.
C5_LinesAreTheSurvivingLines ==
    lfPc \in {"once", "twice"} =>
        /\ Lines(lfOnce) = SelectSeq(Lines(lfText), LAMBDA l : KeepsLine(l, lfSkip))
        /\ (lfSkip = <<>> => lfOnce = lfText)

\* C5 amended: with S not empty, LineFilter(T, S) is the lines of T that
\* contain no element of S, in order, joined by single "\n" with none at the
\* end: cutting it at every "\n" gives those lines back, it is empty when no
\* line is left, and no line read back from it contains an element of S.
\* With S empty the result is T.
C5_SurvivingLinesJoined ==
    lfPc \in {"once", "twice"} =>
        LET kept == SelectSeq(Lines(lfText), LAMBDA l : KeepsLine(l, lfSkip))
        IN  /\ (lfSkip = <<>> => lfOnce = lfText)
            /\ (lfSkip # <<>> /\ kept = <<>> => lfOnce = <<>>)
            /\ (lfSkip # <<>> /\ kept # <<>> => SplitAtNewlines(lfOnce) = kept)
            /\ (lfSkip # <<>> => \A i \in 1..Len(Lines(lfOnce)) : KeepsLine(Lines(lfOnce)[i], lfSkip))

\* a text of three lines of which the middle one was dropped
C5_Witness ==
    /\ lfPc = "once"
    /\ Len(Lines(lfText)) = 3
    /\ ~KeepsLine(Lines(lfText)[2], lfSkip)
    /\ SplitAtNewlines(lfOnce) = <<Lines(lfText)[1], Lines(lfText)[3]>>

\* ---------------------------------------------------------------------- C6
\* C6: a regular file that is not excluded and cannot be read yields exactly
\* one record, rendered from the placeholder text passed through the line
\* filter, and one warning naming it; the scan goes on to the following
\* entries, and a run in which nothing else failed ends with exit status 0.
C6_UnreadableFileGetsPlaceholderRecord ==
    /\ \A k \in 1..idx :
         LET e == entries[k]
             text == LineFilter(Placeholder, skip_substrings)
             rendered == IF mode = "TokenizeDir" THEN TkLine(e.name, text)
                         ELSE BpBlock(e.name, text)
         IN  e.kind = "file" /\ ~e.readable /\ ~Exclusion(e.name) =>
               /\ Cardinality({i \in 1..Len(Records) : Records[i].bytes = rendered}) = 1
               /\ Cardinality({i \in 1..Len(Records) :
                                 SubSeq(Records[i].bytes, 1, Len(e.name)) = e.name}) = 1
               /\ Cardinality({i \in 1..Len(processed) :
                                 processed[i] = [name |-> e.name, text |-> text]}) = 1
               /\ Cardinality({i \in 1..Len(stderr) :
                                 stderr[i].bytes = CouldNotReadPrefix \o DirPath \o <<"/">>
                                                   \o e.name \o <<NL>>}) = 1
    /\ (result.tag = "Err" => ~is_dir \/ fault # "none")
    /\ (pc = "exited" /\ is_dir /\ fault = "none" => exit_code = 0 /\ idx = Len(entries))

\* an unreadable file followed by another file, both with a record, exit status 0
C6_Witness ==
    /\ Finished /\ exit_code = 0
    /\ Len(entries) = 2
    /\ entries[1].kind = "file" /\ ~entries[1].readable
    /\ Len(Records) = 2
    /\ processed[1].text = Placeholder
    /\ Len(stderr) = 1

\* ---------------------------------------------------------------------- C7
\* C7: in a run that completes, what the sink received is, in enumeration
\* order, exactly one record per regular file whose name matches no compiled
\* exclusion pattern, and the name of an excluded file appears nowhere in it.
C7_SinkHoldsExactlyTheSurvivors ==
    Finished =>
        /\ Bytes(SinkStream) = RecordsOf(Survivors(entries))
        /\ \A k \in 1..Len(entries) :
              entries[k].kind = "file" /\ Exclusion(entries[k].name) =>
                  \A i \in 1..Len(SinkStream) : ~Contains(SinkStream[i].bytes, entries[k].name)

\* ---------------------------------------------------------------------- C8
\* C8: when the target is not a directory, the output file cannot be created
\* or the tokenizer cannot be initialised, no entry is enumerated, loaded or
\* rendered, no record is written and the exit status is not zero; when the
\* target is not a directory the output file is neither created nor truncated.
C8_PreflightFailureWritesNothing ==
    result.tag = "Err" /\ (~is_dir \/ fault \in {"create", "init"}) =>
        /\ idx = 0
        /\ processed = <<>>
        /\ stdout = <<>>
        /\ WriterChunks(file.data) = <<>>
        /\ (pc = "exited" => exit_code = 1)
        /\ (~is_dir \/ fault = "create" => file \in {NoFile, OldFile})

\* a run on a path that is not a directory, with an output file that existed, has exited
C8_Witness ==
    /\ pc = "exited" /\ ~is_dir /\ exit_code = 1
    /\ output.tag = "Some" /\ file = OldFile

\* ---------------------------------------------------------------------- C9
\* C9: once a write to the sink fails, or the listing yields an error for an
\* entry, the function has returned the error: the failing entry and the
\* later ones are not consumed, the sink holds the records of the entries
\* before it and no other, and the exit status is not zero.
C9_MidRunFailureStopsTheScan ==
    fault \in {"write", "entry"} =>
        /\ pc \in {"returned", "exited"}
        /\ result.tag = "Err"
        /\ (pc = "exited" => exit_code = 1)
        /\ idx < Len(entries)
        /\ Bytes(Records) = RecordsOf(Survivors(SubSeq(entries, 1, idx)))
        /\ processed = ProcessedOf(Survivors(SubSeq(entries, 1,
                                       IF fault = "write" THEN idx + 1 ELSE idx)))
        /\ SelectSeq(stdout, LAMBDA c : c.via = "println")
              = SkipLinesOf(Excluded(SubSeq(entries, 1, idx)))

\* the write of the second record failed: the first is in the sink, the run exited 1
C9_Witness ==
    /\ fault = "write" /\ pc = "exited" /\ exit_code = 1
    /\ Len(entries) = 2 /\ idx = 1
    /\ Len(Records) = 1 /\ Len(processed) = 2

\* --------------------------------------------------------------------- C10
\* C10: a finished run of either mode has loaded the same files in the same
\* order, with the same filtered text for each, and has emitted the same skip
\* lines and warnings: all of these are one function of the directory, the
\* patterns and the substrings, in which the mode does not occur.  Record i
\* is the record of file i: the token count of its filtered text in Token
\* Counter mode, the block embedding that text in Prompt Renderer mode.
C10_ModesAgree ==
    Finished =>
        /\ processed = ProcessedOf(Survivors(entries))
        /\ SelectSeq(stdout, LAMBDA c : c.via = "println") = SkipLinesOf(Excluded(entries))
        /\ stderr = InvalidWarnings(ignore_patterns) \o ReadWarningsOf(Survivors(entries))
        /\ Len(Records) = Len(processed)
        /\ \A i \in 1..Len(Records) :
              IF mode = "TokenizeDir"
              THEN Records[i].bytes = processed[i].name \o TokensGap
                        \o ToDecimal(Len(Encode(processed[i].text))) \o TokensSuffix \o <<NL>>
              ELSE Records[i].bytes = processed[i].name \o <<NL, NL>> \o processed[i].text
                        \o <<NL, NL>>

\* a finished Token Counter run that skipped a file, warned of a pattern and of a read
C10_Witness ==
    /\ Finished /\ mode = "TokenizeDir"
    /\ Len(entries) = 2
    /\ Len(Excluded(entries)) = 1
    /\ Len(Records) = 1
    /\ Len(stderr) = 2

====
